---- MODULE Spec2Model ----
(***************************************************************************)
(* A model of src/fee_spec.rs: the FeeSpec value (Absolute / Rate /        *)
(* Height), its parser (FromStr), its formatter (Display), its default and *)
(* apply_to_builder.                                                       *)
(*                                                                         *)
(* Strings are sequences of one-character strings.  Unsigned integers      *)
(* (u32, u64) are canonical big-endian sequences of decimal digits, so     *)
(* that the full 32- and 64-bit ranges can be written down and overflow is *)
(* decided exactly.  An f32 is a record holding the shortest decimal that  *)
(* denotes it (what Display prints); for literals of at most six           *)
(* significant digits distinct decimals are distinct f32 values.           *)
(***************************************************************************)
EXTENDS Integers, Sequences, FiniteSets, TLC

VARIABLES
    string,     \* from_str: the argument of the last call
    parsed,     \* from_str: the anyhow::Result it returned
    cli_calls,  \* from_str: the arguments it handed to Amount::from_cli_str
    shown,      \* Display: the FeeSpec formatted last and the text produced
    self,       \* apply_to_builder: the FeeSpec the caller holds
    supplied,   \* whether `self` came from user input (else it is the default)
    builder,    \* apply_to_builder: the TxBuilder's fee policy
    calls,      \* apply_to_builder: what the last call invoked, in order
    ret,        \* apply_to_builder: the anyhow::Result of the last call
    history     \* the applies made to the builder so far

vars == <<string, parsed, cli_calls, shown, self, supplied, builder, calls, ret, history>>

parseVars == <<string, parsed, cli_calls, shown>>
applyVars == <<self, supplied, builder, calls, ret, history>>

(***************************************************************************)
(* Bounds of the model.                                                    *)
(***************************************************************************)
MaxTokens == 3      \* tokens after the prefix of a generated input string
MaxApplies == 2     \* applies made to one builder

(***************************************************************************)
(* Results.                                                                *)
(***************************************************************************)
None == [none |-> TRUE]

Ok(v) == [ok |-> TRUE, val |-> v]

Err(e) == [ok |-> FALSE, err |-> e]

(***************************************************************************)
(* Strings.                                                                *)
(***************************************************************************)
DigitChars == <<"0", "1", "2", "3", "4", "5", "6", "7", "8", "9">>

IsDigitChar(c) == \E i \in 1..10 : DigitChars[i] = c

DigitOf(c) == (CHOOSE i \in 1..10 : DigitChars[i] = c) - 1

CharOf(d) == DigitChars[d + 1]

StartsWith(s, p) == Len(s) >= Len(p) /\ SubSeq(s, 1, Len(p)) = p

\* str::strip_prefix: the rest of s after p, or None
strip_prefix(s, p) ==
    IF StartsWith(s, p) THEN Ok(SubSeq(s, Len(p) + 1, Len(s))) ELSE None

(***************************************************************************)
(* Unsigned integers as canonical digit sequences.                         *)
(***************************************************************************)
U32Max == <<4, 2, 9, 4, 9, 6, 7, 2, 9, 5>>

U64Max == <<1, 8, 4, 4, 6, 7, 4, 4, 0, 7, 3, 7, 0, 9, 5, 5, 1, 6, 1, 5>>

Zero == <<0>>

RECURSIVE LexLeq(_, _)
LexLeq(a, b) ==
    IF a = <<>> THEN TRUE
    ELSE IF Head(a) # Head(b) THEN Head(a) < Head(b)
    ELSE LexLeq(Tail(a), Tail(b))

NatLeq(a, b) == Len(a) < Len(b) \/ (Len(a) = Len(b) /\ LexLeq(a, b))

\* acc * 10 + d
MulAdd(acc, d) == IF acc = Zero THEN <<d>> ELSE Append(acc, d)

\* the digit loop of core::num from_str_radix: checked_mul(10), checked_add(d)
RECURSIVE ParseDigits(_, _, _)
ParseDigits(s, acc, max) ==
    IF s = <<>> THEN Ok(acc)
    ELSE IF ~IsDigitChar(Head(s)) THEN Err("ParseIntError")
    ELSE LET next == MulAdd(acc, DigitOf(Head(s)))
         IN IF ~NatLeq(next, max) THEN Err("ParseIntError")
            ELSE ParseDigits(Tail(s), next, max)

\* <unsigned>::from_str: an optional '+', then at least one digit
UnsignedFromStr(s, max) ==
    IF s = <<>> THEN Err("ParseIntError")
    ELSE LET digits == IF Head(s) = "+" THEN Tail(s) ELSE s
         IN IF digits = <<>> THEN Err("ParseIntError")
            ELSE ParseDigits(digits, Zero, max)

u32_from_str(s) == UnsignedFromStr(s, U32Max)

u64_from_str(s) == UnsignedFromStr(s, U64Max)

\* Display of an unsigned integer: its decimal digits
RECURSIVE UnsignedToString(_)
UnsignedToString(n) ==
    IF n = <<>> THEN <<>> ELSE <<CharOf(Head(n))>> \o UnsignedToString(Tail(n))

RECURSIVE StripLeadingZeros(_)
StripLeadingZeros(n) ==
    IF n = <<>> THEN Zero
    ELSE IF Head(n) = 0 /\ Len(n) > 1 THEN StripLeadingZeros(Tail(n))
    ELSE n

RECURSIVE StripTrailingZeros(_)
StripTrailingZeros(n) ==
    IF n = <<>> THEN <<>>
    ELSE IF n[Len(n)] = 0 THEN StripTrailingZeros(SubSeq(n, 1, Len(n) - 1))
    ELSE n

\* the longest run of digit characters at the front of s, as a count
RECURSIVE DigitRun(_)
DigitRun(s) ==
    IF s = <<>> \/ ~IsDigitChar(Head(s)) THEN 0 ELSE 1 + DigitRun(Tail(s))

DigitsOf(s) == [i \in 1..Len(s) |-> DigitOf(s[i])]

(***************************************************************************)
(* f32.  A finite value is the decimal int.frac with int and frac          *)
(* canonical; inf and NaN are kinds of their own.                          *)
(***************************************************************************)
F32Fin(neg, int, frac) == [kind |-> "fin", neg |-> neg, int |-> int, frac |-> frac]

F32Inf(neg) == [kind |-> "inf", neg |-> neg, int |-> <<>>, frac |-> <<>>]

F32NaN == [kind |-> "nan", neg |-> FALSE, int |-> <<>>, frac |-> <<>>]

F32IsZero(x) == x.kind = "fin" /\ x.int = Zero /\ x.frac = <<>>

\* f32's PartialEq: NaN equals nothing, the two zeros are equal
F32Eq(a, b) ==
    /\ a.kind # "nan"
    /\ b.kind # "nan"
    /\ \/ a = b
       \/ F32IsZero(a) /\ F32IsZero(b)

\* the mantissa of a decimal literal: digits [ '.' digits ], one digit at least,
\* nothing after it (the generated inputs carry no exponent marker)
ParseDecimal(neg, s) ==
    LET n == DigitRun(s)
        rest == SubSeq(s, n + 1, Len(s))
        hasDot == rest # <<>> /\ Head(rest) = "."
        fracStr == IF hasDot THEN Tail(rest) ELSE <<>>
        m == DigitRun(fracStr)
    IN IF n + m = 0 THEN Err("ParseFloatError")
       ELSE IF ~hasDot /\ rest # <<>> THEN Err("ParseFloatError")
       ELSE IF hasDot /\ m # Len(fracStr) THEN Err("ParseFloatError")
       ELSE Ok(F32Fin(neg,
                      StripLeadingZeros(DigitsOf(SubSeq(s, 1, n))),
                      StripTrailingZeros(DigitsOf(fracStr))))

\* f32::from_str: an optional sign, then inf, NaN or a decimal literal
f32_from_str(s) ==
    IF s = <<>> THEN Err("ParseFloatError")
    ELSE LET neg == Head(s) = "-"
             body == IF Head(s) \in {"+", "-"} THEN Tail(s) ELSE s
         IN IF body = <<"i", "n", "f">> THEN Ok(F32Inf(neg))
            ELSE IF body = <<"N", "a", "N">> THEN Ok(F32NaN)
            ELSE ParseDecimal(neg, body)

\* Display of an f32: the shortest decimal that reads back as the same value
f32_to_string(x) ==
    IF x.kind = "nan" THEN <<"N", "a", "N">>
    ELSE (IF x.neg THEN <<"-">> ELSE <<>>) \o
         (IF x.kind = "inf" THEN <<"i", "n", "f">>
          ELSE UnsignedToString(x.int) \o
               (IF x.frac = <<>> THEN <<>> ELSE <<".">> \o UnsignedToString(x.frac)))

(***************************************************************************)
(* bdk::FeeRate and bitcoin::Amount.                                       *)
(***************************************************************************)
from_sat_per_vb(rate) == [sat_per_vb |-> rate]

as_sat_vb(feerate) == feerate.sat_per_vb

from_sat(n) == [sat |-> n]

as_sat(amount) == amount.sat

\* digits of the unit's scale: a BTC is 10^8 sat
SatDigits == 8

RECURSIVE ZeroPadLeft(_, _)
ZeroPadLeft(n, width) == IF Len(n) >= width THEN n ELSE ZeroPadLeft(<<0>> \o n, width)

RECURSIVE ZeroPadRight(_, _)
ZeroPadRight(n, width) == IF Len(n) >= width THEN n ELSE ZeroPadRight(Append(n, 0), width)

\* Display of an Amount: the value in BTC with eight decimals, a space, "BTC"
amount_to_string(amount) ==
    LET padded == ZeroPadLeft(as_sat(amount), SatDigits + 1)
        cut == Len(padded) - SatDigits
    IN UnsignedToString(SubSeq(padded, 1, cut)) \o <<".">> \o
       UnsignedToString(SubSeq(padded, cut + 1, Len(padded))) \o
       <<" ", "B", "T", "C">>

(***************************************************************************)
(* Amount::from_cli_str (crate::amount_ext): a number with a unit suffix.  *)
(***************************************************************************)
\* the position of the last digit character of s, 0 when there is none
RECURSIVE LastDigit(_)
LastDigit(s) ==
    IF s = <<>> THEN 0
    ELSE IF IsDigitChar(s[Len(s)]) THEN Len(s)
    ELSE LastDigit(SubSeq(s, 1, Len(s) - 1))

\* the decimal digits a unit stands above the smallest one
Denomination(unit) ==
    IF unit = <<"s", "a", "t">> \/ unit = <<>> THEN Ok(0)
    ELSE IF unit = <<"B", "T", "C">> THEN Ok(SatDigits)
    ELSE Err("AmountError")

\* the amount written as digits [ '.' digits ] in a unit of `scale` decimals
AmountFromStrIn(value, scale) ==
    LET n == DigitRun(value)
        rest == SubSeq(value, n + 1, Len(value))
        hasDot == rest # <<>> /\ Head(rest) = "."
        fracStr == IF hasDot THEN Tail(rest) ELSE <<>>
        m == DigitRun(fracStr)
        sat == StripLeadingZeros(DigitsOf(SubSeq(value, 1, n)) \o
                                 ZeroPadRight(DigitsOf(fracStr), scale))
    IN IF n + m = 0 THEN Err("AmountError")
       ELSE IF ~hasDot /\ rest # <<>> THEN Err("AmountError")
       ELSE IF hasDot /\ m # Len(fracStr) THEN Err("AmountError")
       ELSE IF m > scale THEN Err("AmountError")
       ELSE IF ~NatLeq(sat, U64Max) THEN Err("AmountError")
       ELSE Ok(from_sat(sat))

from_cli_str(s) ==
    LET i == LastDigit(s)
        denom == Denomination(SubSeq(s, i + 1, Len(s)))
    IN IF i = 0 THEN Err("AmountError")
       ELSE IF ~denom.ok THEN denom
       ELSE AmountFromStrIn(SubSeq(s, 1, i), denom.val)

(***************************************************************************)
(* FeeSpec.                                                                *)
(***************************************************************************)
Absolute(amount) == [tag |-> "Absolute", value |-> amount]

Rate(feerate) == [tag |-> "Rate", value |-> feerate]

Height(blocks) == [tag |-> "Height", value |-> blocks]

\* the derived PartialEq: same variant, equal payloads (f32 equality for Rate)
FeeSpecEq(a, b) ==
    /\ a.tag = b.tag
    /\ IF a.tag = "Rate"
       THEN F32Eq(as_sat_vb(a.value), as_sat_vb(b.value))
       ELSE a.value = b.value

\* a variant of default: the target 0
default_zero == Height(Zero)

default == Height(<<1>>)

RatePrefix == <<"r", "a", "t", "e", ":">>

AbsPrefix == <<"a", "b", "s", ":">>

InBlocksPrefix == <<"i", "n", "-", "b", "l", "o", "c", "k", "s", ":">>

\* Each branch of from_str yields the Result and the arguments it passed to
\* Amount::from_cli_str.
Returned(result, cli) == [result |-> result, cli |-> cli]

from_str_rate(rate) ==
    LET r == f32_from_str(rate)
    IN IF r.ok THEN Returned(Ok(Rate(from_sat_per_vb(r.val))), <<>>)
       ELSE Returned(r, <<>>)

\* a variant of from_str_abs: the unit-aware parser first, the integer second
from_str_abs_cli_first(amount) ==
    LET a == from_cli_str(amount)
    IN IF a.ok THEN Returned(Ok(Absolute(a.val)), <<amount>>)
       ELSE LET int_amount == u64_from_str(amount)
            IN IF int_amount.ok
               THEN Returned(Ok(Absolute(from_sat(int_amount.val))), <<amount>>)
               ELSE Returned(a, <<amount>>)

from_str_abs(amount) ==
    LET int_amount == u64_from_str(amount)
    IN IF int_amount.ok
       THEN Returned(Ok(Absolute(from_sat(int_amount.val))), <<>>)
       ELSE LET a == from_cli_str(amount)
            IN IF a.ok THEN Returned(Ok(Absolute(a.val)), <<amount>>)
               ELSE Returned(a, <<amount>>)

\* a variant of from_str_in_blocks: a malformed count becomes the default
from_str_in_blocks_or_default(in_blocks) ==
    LET h == u32_from_str(in_blocks)
    IN IF h.ok THEN Returned(Ok(Height(h.val)), <<>>)
       ELSE Returned(Ok(default), <<>>)

from_str_in_blocks(in_blocks) ==
    LET h == u32_from_str(in_blocks)
    IN IF h.ok THEN Returned(Ok(Height(h.val)), <<>>)
       ELSE Returned(h, <<>>)

\* a variant of from_str: the prefixes are matched without regard to case
from_str_any_case(s) ==
    LET Lower(c) == IF c = "R" THEN "r" ELSE IF c = "A" THEN "a"
                    ELSE IF c = "B" THEN "b" ELSE IF c = "S" THEN "s" ELSE c
        l == [i \in 1..Len(s) |-> Lower(s[i])]
        rate == strip_prefix(l, RatePrefix)
        amount == strip_prefix(l, AbsPrefix)
        in_blocks == strip_prefix(l, InBlocksPrefix)
    IN IF rate # None THEN from_str_rate(rate.val)
       ELSE IF amount # None THEN from_str_abs(amount.val)
       ELSE IF in_blocks # None THEN from_str_in_blocks(in_blocks.val)
       ELSE Returned(Err("not a valid fee specification"), <<>>)

from_str(s) ==
    LET rate == strip_prefix(s, RatePrefix)
        amount == strip_prefix(s, AbsPrefix)
        in_blocks == strip_prefix(s, InBlocksPrefix)
    IN IF rate # None THEN from_str_rate(rate.val)
       ELSE IF amount # None THEN from_str_abs(amount.val)
       ELSE IF in_blocks # None THEN from_str_in_blocks(in_blocks.val)
       ELSE Returned(Err("not a valid fee specification"), <<>>)

\* a variant of fmt: the rate is written with its unit
fmt_rate_with_unit(fs) ==
    IF fs.tag = "Rate"
    THEN RatePrefix \o f32_to_string(as_sat_vb(fs.value)) \o <<" ", "s", "a", "t">>
    ELSE IF fs.tag = "Absolute" THEN AbsPrefix \o amount_to_string(fs.value)
    ELSE InBlocksPrefix \o UnsignedToString(fs.value)

fmt(fs) ==
    IF fs.tag = "Rate" THEN RatePrefix \o f32_to_string(as_sat_vb(fs.value))
    ELSE IF fs.tag = "Absolute" THEN AbsPrefix \o amount_to_string(fs.value)
    ELSE InBlocksPrefix \o UnsignedToString(fs.value)

(***************************************************************************)
(* Inputs.                                                                 *)
(***************************************************************************)
Tokens ==
    { <<"0">>, <<"1">>, <<"5">>, <<".">>, <<"-">>, <<"+">>, <<" ">>,
      <<"s", "a", "t">>, <<"B", "T", "C">>, <<"N", "a", "N">>, <<"i", "n", "f">> }

RECURSIVE Bodies(_)
Bodies(n) ==
    IF n = 0 THEN { <<>> }
    ELSE LET shorter == Bodies(n - 1)
         IN shorter \cup { b \o t : b \in shorter, t \in Tokens }

Prefixes ==
    { RatePrefix, AbsPrefix, InBlocksPrefix, <<>>,
      <<"R", "a", "t", "e", ":">>, <<"A", "B", "S", ":">>,
      <<"i", "n", "-", "b", "l", "o", "c", "k", "s">>, <<" ", "a", "b", "s", ":">> }

\* the strings of the test module and of the documented examples
Examples ==
    { AbsPrefix \o <<"3", "0", "0", "s", "a", "t">>,
      AbsPrefix \o <<"3", "0", "0">>,
      RatePrefix \o <<"3", ".", "5">>,
      InBlocksPrefix \o <<"5">>,
      RatePrefix \o <<"a", "b", "c">>,
      InBlocksPrefix \o <<"-", "1">>,
      InBlocksPrefix \o UnsignedToString(U32Max),
      InBlocksPrefix \o <<"4", "2", "9", "4", "9", "6", "7", "2", "9", "6">>,
      AbsPrefix \o UnsignedToString(U64Max),
      AbsPrefix \o <<"0", ".", "0", "0", "1", "B", "T", "C">>,
      <<"3", "0", "0">> }

Inputs == Examples \cup { p \o b : p \in Prefixes, b \in Bodies(MaxTokens) }

\* FeeSpec values built directly, not by parsing
Values ==
    << default,
       Height(Zero), Height(U32Max),
       Absolute(from_sat(Zero)), Absolute(from_sat(<<3, 0, 0>>)),
       Absolute(from_sat(<<1, 2, 3, 4, 5, 6, 7, 8, 9>>)), Absolute(from_sat(U64Max)),
       Rate(from_sat_per_vb(F32Fin(FALSE, <<3>>, <<5>>))),
       Rate(from_sat_per_vb(F32Fin(TRUE, Zero, <<>>))),
       Rate(from_sat_per_vb(F32Inf(FALSE))),
       Rate(from_sat_per_vb(F32NaN)) >>

(***************************************************************************)
(* TxBuilder and Blockchain, as far as apply_to_builder uses them.         *)
(***************************************************************************)
NoPolicy == [policy |-> "None"]

FeeRatePolicy(feerate) == [policy |-> "FeeRate", rate |-> feerate]

FeeAmountPolicy(sat) == [policy |-> "FeeAmount", amount |-> sat]

\* TxBuilder::fee_rate and TxBuilder::fee_absolute overwrite the one fee policy
fee_rate(b, feerate) == [b EXCEPT !.fee_policy = FeeRatePolicy(feerate)]

fee_absolute(b, sat) == [b EXCEPT !.fee_policy = FeeAmountPolicy(sat)]

\* a variant of as_usize: a narrowing cast that clamps at 65535
as_usize_clamped(n) == IF NatLeq(n, <<6, 5, 5, 3, 5>>) THEN n ELSE <<6, 5, 5, 3, 5>>

\* `as usize` of a u32: lossless, usize has 32 bits or more
as_usize(n) == n

\* what the fee-estimation service may answer
Answers ==
    { Ok(from_sat_per_vb(F32Fin(FALSE, <<2>>, <<5>>))),
      Ok(from_sat_per_vb(F32Fin(FALSE, <<1, 0>>, <<>>))),
      Err("no estimate for the target"),
      Err("connection failed") }

Unit == <<>>

Applied(b, invoked, result) == [builder |-> b, calls |-> invoked, ret |-> result]

\* a variant of apply_absolute: the setter call is left out
apply_absolute_no_setter(fee, b) == Applied(b, <<>>, Ok(Unit))

apply_absolute(fee, b) ==
    Applied(fee_absolute(b, as_sat(fee)), << <<"fee_absolute", as_sat(fee)>> >>, Ok(Unit))

\* a variant of apply_rate: both setters are called
apply_rate_both_setters(rate, b) ==
    Applied(fee_absolute(fee_rate(b, rate), Zero),
            << <<"fee_rate", rate>>, <<"fee_absolute", Zero>> >>, Ok(Unit))

apply_rate(rate, b) ==
    Applied(fee_rate(b, rate), << <<"fee_rate", rate>> >>, Ok(Unit))

\* a variant of apply_height: the service's error is swallowed
apply_height_swallow(height, answer, b) ==
    LET target == as_usize(height)
    IN IF answer.ok
       THEN Applied(fee_rate(b, answer.val),
                    << <<"estimate_fee", target>>, <<"fee_rate", answer.val>> >>,
                    Ok(Unit))
       ELSE Applied(b, << <<"estimate_fee", target>> >>, Ok(Unit))

\* `answer` is what blockchain.estimate_fee returns when it is called
apply_height(height, answer, b) ==
    LET target == as_usize(height)
    IN IF answer.ok
       THEN Applied(fee_rate(b, answer.val),
                    << <<"estimate_fee", target>>, <<"fee_rate", answer.val>> >>,
                    Ok(Unit))
       ELSE Applied(b, << <<"estimate_fee", target>> >>, answer)

apply_to_builder(fs, answer, b) ==
    IF fs.tag = "Absolute" THEN apply_absolute(fs.value, b)
    ELSE IF fs.tag = "Rate" THEN apply_rate(fs.value, b)
    ELSE apply_height(fs.value, answer, b)

\* the FeeSpec values a caller supplies
Supplied == SubSeq(Values, 1, 8)

(***************************************************************************)
(* The state machine.                                                      *)
(***************************************************************************)
Init ==
    /\ string = <<>>
    /\ parsed = None
    /\ cli_calls = <<>>
    /\ shown = None
    /\ self = default
    /\ supplied = FALSE
    /\ builder = [fee_policy |-> NoPolicy]
    /\ calls = <<>>
    /\ ret = None
    /\ history = <<>>

\* FeeSpec::from_str(s), on the one string s a run is given
FromStr ==
    /\ parsed = None
    /\ shown = None
    /\ \E s \in Inputs :
          /\ string' = s
          /\ parsed' = from_str(s).result
          /\ cli_calls' = from_str(s).cli
    /\ shown' = None
    /\ UNCHANGED applyVars

Shown(fs) == [spec |-> fs, text |-> fmt(fs), reparsed |-> FALSE]

\* to_string() of the FeeSpec just parsed
Display ==
    /\ parsed # None
    /\ parsed.ok
    /\ shown = None
    /\ shown' = Shown(parsed.val)
    /\ UNCHANGED <<string, parsed, cli_calls>>
    /\ UNCHANGED applyVars

\* to_string() of a FeeSpec built directly
DisplayValue ==
    /\ parsed = None
    /\ \E i \in 1..Len(Values) : shown' = Shown(Values[i])
    /\ UNCHANGED <<string, parsed, cli_calls>>
    /\ UNCHANGED applyVars

\* FeeSpec::from_str of the text Display produced
Reparse ==
    /\ shown # None
    /\ ~shown.reparsed
    /\ string' = shown.text
    /\ parsed' = from_str(shown.text).result
    /\ cli_calls' = from_str(shown.text).cli
    /\ shown' = [shown EXCEPT !.reparsed = TRUE]
    /\ UNCHANGED applyVars

Next ==
    \/ FromStr
    \/ Display
    \/ DisplayValue
    \/ Reparse

Spec == Init /\ [][Next]_vars

\* the caller replaces the default by a FeeSpec from user input
Supply ==
    /\ \E i \in 1..Len(Supplied) : self' = Supplied[i]
    /\ supplied' = TRUE
    /\ UNCHANGED <<builder, calls, ret, history>>
    /\ UNCHANGED parseVars

\* self.apply_to_builder(blockchain, builder)
ApplyToBuilder ==
    /\ Len(history) < MaxApplies
    /\ \E answer \in Answers :
          LET r == apply_to_builder(self, answer, builder)
          IN /\ builder' = r.builder
             /\ calls' = r.calls
             /\ ret' = r.ret
             /\ history' = Append(history,
                    [spec |-> self, answer |-> answer, before |-> builder])
    /\ UNCHANGED <<self, supplied>>
    /\ UNCHANGED parseVars

NextApply ==
    \/ Supply
    \/ ApplyToBuilder

SpecApply == Init /\ [][NextApply]_vars

(***************************************************************************)
(* Properties of from_str and Display, checked under Spec.                 *)
(***************************************************************************)
\* s is p followed by something
Begins(s, p) == \E k \in 0..Len(s) : SubSeq(s, 1, k) = p

\* what follows the first Len(p) characters of s
After(s, p) == [i \in 1..(Len(s) - Len(p)) |-> s[i + Len(p)]]

Sat300 == Absolute(from_sat(<<3, 0, 0>>))

\* the result r is Ok of exactly the FeeSpec fs
IsOk(r, fs) == r.ok /\ r.val.tag = fs.tag /\ r.val.value = fs.value

\* from_str has returned for an "abs:" string
ParsedAbs == parsed # None /\ Begins(string, AbsPrefix)

\* C1: for "abs:" + v, when v is a plain integer the result is Absolute of that
\* many sat and Amount::from_cli_str is not consulted; otherwise from_cli_str is
\* consulted once, on v, and its amount or its error is the result.  "abs:300"
\* and "abs:300sat" both give Absolute(300 sat); the parse fails only when
\* neither parser accepts v.
C1_AbsIntegerFirst ==
    ParsedAbs =>
        LET v == After(string, AbsPrefix)
            int == u64_from_str(v)
            cli == from_cli_str(v)
        IN /\ int.ok => IsOk(parsed, Absolute(from_sat(int.val))) /\ cli_calls = <<>>
           /\ ~int.ok => cli_calls = <<v>>
           /\ ~int.ok /\ cli.ok => IsOk(parsed, Absolute(cli.val))
           /\ ~int.ok /\ ~cli.ok => parsed = cli
           /\ ~parsed.ok => ~int.ok /\ ~cli.ok
           /\ v = <<"3", "0", "0">> => IsOk(parsed, Sat300)
           /\ v = <<"3", "0", "0", "s", "a", "t">> => IsOk(parsed, Sat300)

C1_Witness ==
    /\ ParsedAbs
    /\ After(string, AbsPrefix) = <<"3", "0", "0", "s", "a", "t">>
    /\ IsOk(parsed, Sat300)
    /\ cli_calls # <<>>

NoPrefix(s) ==
    ~Begins(s, RatePrefix) /\ ~Begins(s, AbsPrefix) /\ ~Begins(s, InBlocksPrefix)

\* C2: a string that starts with none of "rate:", "abs:", "in-blocks:" (compared
\* case-sensitively) fails to parse: from_str returns an error and no FeeSpec.
C2_NoPrefixFails ==
    parsed # None /\ NoPrefix(string) => ~parsed.ok /\ cli_calls = <<>>

C2_Witness ==
    /\ parsed # None
    /\ string = <<"R", "a", "t", "e", ":", "1">>
    /\ ~parsed.ok

\* Display was applied to a value and from_str to the text it produced
RoundTripped == shown # None /\ shown.reparsed

IsNaNRate(fs) == fs.tag = "Rate" /\ as_sat_vb(fs.value).kind = "nan"

RoundTrips == parsed.ok /\ FeeSpecEq(parsed.val, shown.spec)

\* C3 as stated: for every Rate and Height value v, parsing the formatted v
\* succeeds and returns a value equal to v.
C3_Original ==
    RoundTripped /\ shown.spec.tag \in {"Rate", "Height"} => RoundTrips

\* C3 as amended: for every Height value and every Rate whose rate is not NaN,
\* parsing the formatted value succeeds and returns a value equal to it.
C3_RoundTrip ==
    RoundTripped /\ shown.spec.tag \in {"Rate", "Height"} /\ ~IsNaNRate(shown.spec)
        => RoundTrips

C3_Witness ==
    /\ RoundTripped
    /\ shown.spec.tag = "Height"
    /\ shown.spec.value = U32Max
    /\ RoundTrips

C8_MalformedNumberFails ==
    /\ parsed # None /\ Begins(string, RatePrefix)
           /\ ~f32_from_str(After(string, RatePrefix)).ok
         => parsed = Err("ParseFloatError") /\ cli_calls = <<>>
    /\ parsed # None /\ Begins(string, InBlocksPrefix)
           /\ ~u32_from_str(After(string, InBlocksPrefix)).ok
         => parsed = Err("ParseIntError") /\ cli_calls = <<>>
    /\ parsed # None /\ string \in
           { RatePrefix \o <<"a", "b", "c">>,
             RatePrefix,
             InBlocksPrefix \o <<"-", "1">>,
             InBlocksPrefix,
             InBlocksPrefix \o <<"4", "2", "9", "4", "9", "6", "7", "2", "9", "6">> }
         => ~parsed.ok

C8_Witness ==
    /\ parsed # None
    /\ string = InBlocksPrefix \o <<"4", "2", "9", "4", "9", "6", "7", "2", "9", "6">>
    /\ ~parsed.ok

(***************************************************************************)
(* Properties of default and apply_to_builder, checked under SpecApply.    *)
(***************************************************************************)
\* the apply made last: the FeeSpec applied, the service's answer, the builder
\* as it was before the call
Last == history[Len(history)]

IsSetter(call) == call[1] \in {"fee_rate", "fee_absolute"}

Setters == { i \in 1..Len(calls) : IsSetter(calls[i]) }

Estimates == { i \in 1..Len(calls) : calls[i][1] = "estimate_fee" }

\* C4: when the service answers Height(h) with an error, apply_to_builder
\* returns that error, calls no setter and leaves the builder's fee policy as it
\* was before the call.
C4_EstimateErrorPropagates ==
    history # <<>> /\ Last.spec.tag = "Height" /\ ~Last.answer.ok =>
        /\ ret = Last.answer
        /\ Setters = {}
        /\ builder = Last.before

C4_Witness ==
    /\ history # <<>>
    /\ Last.spec.tag = "Height"
    /\ ~Last.answer.ok
    /\ ~ret.ok
    /\ builder.fee_policy.policy = "FeeAmount"

\* C5: applying Absolute(a) sets the builder's absolute fee to a sat, succeeds
\* and never calls the service, whatever the service would have answered.
C5_AbsoluteSetsFee ==
    history # <<>> /\ Last.spec.tag = "Absolute" =>
        /\ builder.fee_policy.policy = "FeeAmount"
        /\ builder.fee_policy.amount = Last.spec.value.sat
        /\ ret = Ok(Unit)
        /\ Estimates = {}

C5_Witness ==
    /\ history # <<>>
    /\ Last.spec.tag = "Absolute"
    /\ Last.spec.value.sat = U64Max
    /\ ~Last.answer.ok
    /\ ret.ok

\* C6: applying Height(h) when the service succeeds calls the service once,
\* with target h, then sets the builder's fee rate to the estimate returned,
\* and reports success.
C6_HeightUsesEstimate ==
    history # <<>> /\ Last.spec.tag = "Height" /\ Last.answer.ok =>
        /\ Len(calls) = 2
        /\ calls[1][1] = "estimate_fee" /\ calls[1][2] = Last.spec.value
        /\ calls[2][1] = "fee_rate" /\ calls[2][2] = Last.answer.val
        /\ builder.fee_policy.policy = "FeeRate"
        /\ builder.fee_policy.rate = Last.answer.val
        /\ ret = Ok(Unit)

C6_Witness ==
    /\ history # <<>>
    /\ Last.spec.tag = "Height"
    /\ Last.spec.value = U32Max
    /\ Last.answer.ok
    /\ builder.fee_policy.policy = "FeeRate"

\* C9: while no user input is supplied the FeeSpec is Height(1), and applying
\* it calls the service with target 1.
C9_DefaultIsHeightOne ==
    ~supplied =>
        /\ self.tag = "Height" /\ self.value = <<1>>
        /\ history # <<>> =>
              calls[1][1] = "estimate_fee" /\ calls[1][2] = <<1>>

C9_Witness ==
    /\ ~supplied
    /\ history # <<>>
    /\ Estimates # {}
    /\ ret.ok

\* the fee policy the claim expects of a successful apply
Setting(e) ==
    IF e.spec.tag = "Absolute" THEN FeeAmountPolicy(e.spec.value.sat)
    ELSE IF e.spec.tag = "Rate" THEN FeeRatePolicy(e.spec.value)
    ELSE FeeRatePolicy(e.answer.val)

Succeeded(e) == e.spec.tag # "Height" \/ e.answer.ok

RECURSIVE LastSetting(_)
LastSetting(h) ==
    IF h = <<>> THEN NoPolicy
    ELSE IF Succeeded(h[Len(h)]) THEN Setting(h[Len(h)])
    ELSE LastSetting(SubSeq(h, 1, Len(h) - 1))

C10_OneMutation ==
    /\ Cardinality(Setters) <= 1
    /\ history # <<>> =>
          /\ ret.ok <=> Succeeded(Last)
          /\ ret.ok => Cardinality(Setters) = 1
          /\ ret.ok /\ Last.spec.tag = "Absolute" =>
                \A i \in Setters : calls[i][1] = "fee_absolute"
          /\ ret.ok /\ Last.spec.tag # "Absolute" =>
                \A i \in Setters : calls[i][1] = "fee_rate"
          /\ Last.spec.tag = "Rate" =>
                /\ Len(calls) = 1
                /\ calls[1][1] = "fee_rate" /\ calls[1][2] = Last.spec.value
    /\ builder.fee_policy = LastSetting(history)

\* C10: a call of apply_to_builder makes at most one builder mutation, chosen by
\* the variant: a successful call invokes exactly one setter (fee_absolute for
\* Absolute, fee_rate for Rate and Height), Rate(r) sets the rate r without
\* calling the service, the FeeSpec is unchanged by the call, and the builder
\* holds the fee setting of the last successful apply made to it.
C10_LastSuccessfulApplyWins ==
    /\ []C10_OneMutation
    /\ [][history' # history => self' = self]_vars

C10_Witness ==
    /\ Len(history) >= 2
    /\ Last.spec.tag = "Height"
    /\ ~Last.answer.ok
    /\ history[Len(history) - 1].spec.tag = "Rate"
    /\ builder.fee_policy.policy = "FeeRate"

====
